---------------------------- MODULE Spec2Model ----------------------------
(***************************************************************************)
(* stages/01_download_build.py: download the TDC ADME and Toxicity         *)
(* datasets, save each as brick/<prefix>_<name>.parquet, build the         *)
(* combined summary file and print the row counts of every parquet file.   *)
(*                                                                         *)
(* Text (dataset names, column names, file names, text cells) is a         *)
(* sequence of one-character strings, so that lower(), strip(), replace()  *)
(* and the ordering of file names are computed character by character.     *)
(***************************************************************************)
EXTENDS Integers, Sequences, FiniteSets, TLC

VARIABLES pc, idx, files, brick0, all_datasets, fetched, console, report,
          col_names

vars == <<pc, idx, files, brick0, all_datasets, fetched, console, report,
          col_names>>

-----------------------------------------------------------------------------
(* Characters *)

\* The characters of the model in code-point order (what str comparison and
\* sorted() use).
CodePoints ==
  <<"\t", " ", "-", ".", "0", "1", "2", "3", "4", "5", "6", "7", "8", "9">> \o
  <<"A", "B", "C", "D", "E", "F", "G", "H", "I", "J", "K", "L", "M", "N", "O", "P", "Q", "R", "S", "T", "U", "V", "W", "X", "Y", "Z">> \o
  <<"_", "a", "b", "c", "d", "e", "f", "g", "h", "i", "j", "k", "l", "m", "n", "o", "p", "q", "r", "s", "t", "u", "v", "w", "x", "y", "z">>

CodePointOf ==
  [c \in {CodePoints[k] : k \in 1..Len(CodePoints)} |->
     CHOOSE k \in 1..Len(CodePoints) : CodePoints[k] = c]

\* ord(c), up to the offset of the table.
Ord(c) == CodePointOf[c]

UpperChars == <<"A", "B", "C", "D", "E", "F", "G", "H", "I", "J", "K", "L", "M", "N", "O", "P", "Q", "R", "S", "T", "U", "V", "W", "X", "Y", "Z">>

LowerChars == <<"a", "b", "c", "d", "e", "f", "g", "h", "i", "j", "k", "l", "m", "n", "o", "p", "q", "r", "s", "t", "u", "v", "w", "x", "y", "z">>

LowerOf ==
  [c \in {UpperChars[k] : k \in 1..Len(UpperChars)} |->
     LowerChars[CHOOSE k \in 1..Len(UpperChars) : UpperChars[k] = c]]

\* str.lower() on one character.
LowerChar(c) == IF c \in DOMAIN LowerOf THEN LowerOf[c] ELSE c

\* str.lower()
Lower(s) == [k \in 1..Len(s) |-> LowerChar(s[k])]

\* The characters str.strip() removes.
IsSpace(c) == c \in {" ", "\t"}

RECURSIVE LStrip(_)
LStrip(s) == IF s # <<>> /\ IsSpace(Head(s)) THEN LStrip(Tail(s)) ELSE s

RECURSIVE RStrip(_)
RStrip(s) ==
  IF s # <<>> /\ IsSpace(s[Len(s)]) THEN RStrip(SubSeq(s, 1, Len(s) - 1)) ELSE s

\* str.strip()
Strip(s) == RStrip(LStrip(s))

\* str.replace(old, new) for single characters.
Replace(s, old, new) == [k \in 1..Len(s) |-> IF s[k] = old THEN new ELSE s[k]]

\* A column name the way the buggy variant would rewrite it: the hyphen is
\* turned into a space after the spaces were already replaced.
NormalizeHyphenToSpace(c) ==
  Replace(Replace(Lower(Strip(c)), " ", "_"), "-", " ")

\* str(c).strip().lower().replace(' ', '_').replace('-', '_')
NormalizeName(c) ==
  Replace(Replace(Lower(Strip(c)), " ", "_"), "-", "_")

-----------------------------------------------------------------------------
(* The two fixed lists *)

adme_datasets ==
  <<
    <<"C", "a", "c", "o", "2", "_", "W", "a", "n", "g">>,   \* 'Caco2_Wang'
    <<"P", "A", "M", "P", "A", "_", "N", "C", "A", "T", "S">>,   \* 'PAMPA_NCATS'
    <<"H", "I", "A", "_", "H", "o", "u">>,   \* 'HIA_Hou'
    <<"P", "g", "p", "_", "B", "r", "o", "c", "c", "a", "t", "e", "l", "l", "i">>,   \* 'Pgp_Broccatelli'
    <<"B", "i", "o", "a", "v", "a", "i", "l", "a", "b", "i", "l", "i", "t", "y", "_", "M", "a">>,   \* 'Bioavailability_Ma'
    <<"L", "i", "p", "o", "p", "h", "i", "l", "i", "c", "i", "t", "y", "_", "A", "s", "t", "r", "a", "Z", "e", "n", "e", "c", "a">>,   \* 'Lipophilicity_AstraZeneca'
    <<"S", "o", "l", "u", "b", "i", "l", "i", "t", "y", "_", "A", "q", "S", "o", "l", "D", "B">>,   \* 'Solubility_AqSolDB'
    <<"H", "y", "d", "r", "a", "t", "i", "o", "n", "F", "r", "e", "e", "E", "n", "e", "r", "g", "y", "_", "F", "r", "e", "e", "S", "o", "l", "v">>,   \* 'HydrationFreeEnergy_FreeSolv'
    <<"C", "Y", "P", "2", "C", "1", "9", "_", "V", "e", "i", "t", "h">>,   \* 'CYP2C19_Veith'
    <<"C", "Y", "P", "2", "D", "6", "_", "V", "e", "i", "t", "h">>,   \* 'CYP2D6_Veith'
    <<"C", "Y", "P", "3", "A", "4", "_", "V", "e", "i", "t", "h">>,   \* 'CYP3A4_Veith'
    <<"C", "Y", "P", "1", "A", "2", "_", "V", "e", "i", "t", "h">>,   \* 'CYP1A2_Veith'
    <<"C", "Y", "P", "2", "C", "9", "_", "V", "e", "i", "t", "h">>,   \* 'CYP2C9_Veith'
    <<"C", "Y", "P", "2", "C", "9", "_", "S", "u", "b", "s", "t", "r", "a", "t", "e", "_", "C", "a", "r", "b", "o", "n", "M", "a", "n", "g", "e", "l", "s">>,   \* 'CYP2C9_Substrate_CarbonMangels'
    <<"C", "Y", "P", "2", "D", "6", "_", "S", "u", "b", "s", "t", "r", "a", "t", "e", "_", "C", "a", "r", "b", "o", "n", "M", "a", "n", "g", "e", "l", "s">>,   \* 'CYP2D6_Substrate_CarbonMangels'
    <<"C", "Y", "P", "3", "A", "4", "_", "S", "u", "b", "s", "t", "r", "a", "t", "e", "_", "C", "a", "r", "b", "o", "n", "M", "a", "n", "g", "e", "l", "s">>,   \* 'CYP3A4_Substrate_CarbonMangels'
    <<"H", "a", "l", "f", "_", "L", "i", "f", "e", "_", "O", "b", "a", "c", "h">>,   \* 'Half_Life_Obach'
    <<"C", "l", "e", "a", "r", "a", "n", "c", "e", "_", "H", "e", "p", "a", "t", "o", "c", "y", "t", "e", "_", "A", "Z">>,   \* 'Clearance_Hepatocyte_AZ'
    <<"C", "l", "e", "a", "r", "a", "n", "c", "e", "_", "M", "i", "c", "r", "o", "s", "o", "m", "e", "_", "A", "Z">>,   \* 'Clearance_Microsome_AZ'
    <<"P", "P", "B", "R", "_", "A", "Z">>,   \* 'PPBR_AZ'
    <<"V", "D", "s", "s", "_", "L", "o", "m", "b", "a", "r", "d", "o">>,   \* 'VDss_Lombardo'
    <<"B", "B", "B", "_", "M", "a", "r", "t", "i", "n", "s">>   \* 'BBB_Martins'
  >>

tox_datasets ==
  <<
    <<"h", "E", "R", "G">>,   \* 'hERG'
    <<"h", "E", "R", "G", "_", "K", "a", "r", "i", "m">>,   \* 'hERG_Karim'
    <<"A", "M", "E", "S">>,   \* 'AMES'
    <<"D", "I", "L", "I">>,   \* 'DILI'
    <<"S", "k", "i", "n", "_", "R", "e", "a", "c", "t", "i", "o", "n">>,   \* 'Skin_Reaction'
    <<"C", "a", "r", "c", "i", "n", "o", "g", "e", "n", "s", "_", "L", "a", "g", "u", "n", "i", "n">>,   \* 'Carcinogens_Lagunin'
    <<"C", "l", "i", "n", "T", "o", "x">>,   \* 'ClinTox'
    <<"L", "D", "5", "0", "_", "Z", "h", "u">>   \* 'LD50_Zhu'
  >>

-----------------------------------------------------------------------------
(* Cells and tables *)

\* A cell is an integer, a text or the missing value (NaN).
IntCell(n) == [t |-> "int", i |-> n]

TextCell(s) == [t |-> "str", s |-> s]

NaN == [t |-> "nan"]

DigitChars == <<"0", "1", "2", "3", "4", "5", "6", "7", "8", "9">>

\* str() of a non-negative integer.
RECURSIVE Decimal(_)
Decimal(n) ==
  IF n < 10 THEN <<DigitChars[n + 1]>>
  ELSE Decimal(n \div 10) \o <<DigitChars[(n % 10) + 1]>>

\* The buggy variant of the conversion: the cell is left as it is.
AsTypeStrIdentity(v) == v

\* Series.astype(str) on one cell.
AsTypeStr(v) ==
  CASE v.t = "int" -> TextCell(Decimal(v.i))
    [] v.t = "str" -> v
    [] v.t = "nan" -> TextCell(<<"n", "a", "n">>)

\* A table (DataFrame): its column names and its rows, each row holding one
\* cell per column.
Table(cols, rows) == [cols |-> cols, rows |-> rows]

Range(s) == {s[k] : k \in 1..Len(s)}

ColumnIndex(df, c) == CHOOSE k \in 1..Len(df.cols) : df.cols[k] = c

\* df[c] = v : overwrite the column named c when there is one, else append it.
SetColumn(df, c, v) ==
  IF c \in Range(df.cols)
  THEN Table(df.cols,
             [r \in 1..Len(df.rows) |->
                [k \in 1..Len(df.cols) |->
                   IF df.cols[k] = c THEN v ELSE df.rows[r][k]]])
  ELSE Table(Append(df.cols, c),
             [r \in 1..Len(df.rows) |-> Append(df.rows[r], v)])

\* df.columns = [normalised names]
RenameColumns(df) ==
  Table([k \in 1..Len(df.cols) |-> NormalizeName(df.cols[k])], df.rows)

col_drug_id == <<"d", "r", "u", "g", "_", "i", "d">>

col_drug == <<"d", "r", "u", "g">>

col_y == <<"y">>

col_dataset == <<"d", "a", "t", "a", "s", "e", "t">>

col_category == <<"c", "a", "t", "e", "g", "o", "r", "y">>

tag_ADME == <<"A", "D", "M", "E">>

tag_Toxicity == <<"T", "o", "x", "i", "c", "i", "t", "y">>

\* The buggy variant: the category column is never added.
AnnotateWithoutCategory(df, name, tag) ==
  RenameColumns(SetColumn(df, col_dataset, TextCell(name)))

\* df['dataset'] = name; df['category'] = tag; then the column rename.
Annotate(df, name, tag) ==
  RenameColumns(SetColumn(SetColumn(df, col_dataset, TextCell(name)),
                          col_category, TextCell(tag)))

HasDuplicates(s) == \E a, b \in 1..Len(s) : a # b /\ s[a] = s[b]

-----------------------------------------------------------------------------
(* Column-name normalisation on its own *)

MaxNameLen == 3

NameAlphabet == {"A", "b", " ", "\t", "-", "_"}

ColumnTexts ==
  UNION {[1..n -> NameAlphabet] : n \in 0..MaxNameLen}

InitNorm ==
  /\ col_names \in {<<c>> : c \in ColumnTexts}
  /\ pc = "rename"
  /\ idx = 1
  /\ files = <<>>
  /\ brick0 = <<>>
  /\ all_datasets = <<>>
  /\ fetched = <<>>
  /\ console = <<>>
  /\ report = <<>>

\* One more application of the rename to the name obtained so far.
Rename ==
  /\ pc = "rename"
  /\ Len(col_names) < 3
  /\ col_names' = Append(col_names, NormalizeName(col_names[Len(col_names)]))
  /\ UNCHANGED <<pc, idx, files, brick0, all_datasets, fetched, console, report>>

NextNorm == Rename

SpecNorm == InitNorm /\ [][NextNorm]_vars

\* C7: normalising a column name that is already normalised returns it
\* unchanged (the second application of the rename changes nothing).
C7_NormalizeIdempotent ==
  Len(col_names) >= 3 => col_names[3] = col_names[2]

\* A name that the first application does change (upper case, a space and a
\* hyphen rewritten) and that was normalised twice.
C7_Witness ==
  /\ Len(col_names) = 3
  /\ col_names[1] = <<"A", " ", "-">>
  /\ col_names[2] = <<"a", "_", "_">>


-----------------------------------------------------------------------------
(* The provider (tdc.single_pred.ADME / Tox) *)

\* The tables the provider may return. Column names are the provider's own,
\* before the rename.
Tbl_DrugID_Drug_Y ==
  Table(<<<<"D", "r", "u", "g", "_", "I", "D">>, <<"D", "r", "u", "g">>, <<"Y">>>>,
        << <<IntCell(1), TextCell(<<"a">>), IntCell(0)>>,
           <<IntCell(2), TextCell(<<"b">>), IntCell(1)>>,
           <<IntCell(3), TextCell(<<"c">>), IntCell(0)>> >>)

\* A table that already has a column named dataset, has no Drug_ID column
\* and has a column the summary does not keep.
Tbl_dataset_Y_MolWt ==
  Table(<<<<"d", "a", "t", "a", "s", "e", "t">>, <<"Y">>, <<"M", "o", "l", " ", "W", "t">>>>,
        << <<TextCell(<<"d">>), IntCell(1), IntCell(7)>>,
           <<TextCell(<<"e">>), IntCell(0), IntCell(8)>> >>)

\* Two columns whose names differ only in case and surrounding blanks.
Tbl_Drug_drug ==
  Table(<<<<"D", "r", "u", "g">>, <<" ", "d", "r", "u", "g">>>>,
        << <<TextCell(<<"f">>), TextCell(<<"g">>)>> >>)

ProviderTables == {Tbl_DrugID_Drug_Y, Tbl_dataset_Y_MolWt, Tbl_Drug_drug}

\* What one provider call does: it raises, or it returns a table.
Raised == [ok |-> FALSE]

Returned(df) == [ok |-> TRUE, df |-> df]

ProviderResults == {Raised} \cup {Returned(df) : df \in ProviderTables}

\* What the disk does to one to_parquet call that got as far as opening the
\* file: the write succeeds, or it fails with the file already truncated.
\* (A write that fails with the file untouched is the refusal of Written.)
DiskOutcomes == {"ok", "fail_truncated"}

-----------------------------------------------------------------------------
(* brick/ *)

\* The content of a file: a parquet table, or bytes that are no parquet
\* table.
ParquetOf(df) == [kind |-> "parquet", df |-> df]

Garbage == [kind |-> "garbage"]

dot_parquet == <<".", "p", "a", "r", "q", "u", "e", "t">>

prefix_adme == <<"a", "d", "m", "e", "_">>

prefix_tox == <<"t", "o", "x", "_">>

\* The buggy variant: the name is left out of the file name.
OutputFileWithoutName(prefix, name) == prefix \o dot_parquet

\* brick_path / f"{prefix}{name.lower()}.parquet"
OutputFile(prefix, name) == prefix \o Lower(name) \o dot_parquet

combined_file == <<"t", "d", "c", "_", "a", "d", "m", "e", "t", "_", "c", "o", "m", "b", "i", "n", "e", "d", ".", "p", "a", "r", "q", "u", "e", "t">>

\* The files of brick/ are a function from the names present to contents.
Put(fs, f, content) ==
  [g \in (DOMAIN fs) \cup {f} |-> IF g = f THEN content ELSE fs[g]]

\* The lists as far as a run of the model walks them.
MaxAdme == 2

MaxTox == 1

adme_used == SubSeq(adme_datasets, 1, MaxAdme)

tox_used == SubSeq(tox_datasets, 1, MaxTox)

OwnFiles ==
  {OutputFile(prefix_adme, adme_used[k]) : k \in 1..Len(adme_used)} \cup
  {OutputFile(prefix_tox, tox_used[k]) : k \in 1..Len(tox_used)}

\* A table left by an earlier run.
Tbl_Stale ==
  Table(<<col_drug_id, col_drug, col_y, col_dataset, col_category>>,
        << <<TextCell(<<"9">>), TextCell(<<"z">>), IntCell(1),
             TextCell(<<"o", "l", "d">>), TextCell(tag_ADME)>>,
           <<TextCell(<<"8">>), TextCell(<<"y">>), IntCell(0),
             TextCell(<<"o", "l", "d">>), TextCell(tag_ADME)>> >>)

file_other == <<"Z", "o", "t", "h", "e", "r", ".", "p", "a", "r", "q", "u", "e", "t">>

file_backup == <<"t", "o", "x", "_", "h", "e", "r", "g", ".", "p", "a", "r", "q", "u", "e", "t", ".", "b", "a", "k">>

\* brick/ when the run starts: empty (or just created) ...
EmptyBrick == <<>>

\* ... or holding what an earlier run left, every output file and the
\* combined file, beside a parquet file of another origin and a backup copy
\* whose name does not end in .parquet ...
EarlierRun ==
  [f \in OwnFiles \cup {combined_file, file_other, file_backup} |->
     ParquetOf(Tbl_Stale)]

\* ... or holding a file named *.parquet that pd.read_parquet cannot read.
UnreadableFile == Put(EmptyBrick, file_other, Garbage)

InitialBricks == {EmptyBrick, EarlierRun, UnreadableFile}

-----------------------------------------------------------------------------
(* The fetch/write loops *)

\* One console line: what was printed, with the names and the count in it.
Line(ev, tag, name, n) == [ev |-> ev, tag |-> tag, name |-> name, n |-> n]

\* DataFrame.to_parquet refuses a table with two columns of the same name
\* before it opens the file; otherwise the disk decides.
Written(df, disk) == ~HasDuplicates(df.cols) /\ disk = "ok"

\* The buggy variant: the table is kept as soon as the fetch succeeded.
ReachesAppendAfterFetch(res, df, disk) == res.ok

\* all_datasets.append(df) is reached only when nothing before it in the try
\* block raised: neither the fetch nor the write.
ReachesAppend(res, df, disk) == res.ok /\ Written(df, disk)

\* The file of the item after the try block.
FilesAfterItem(fs, output_file, res, df, disk) ==
  IF ~res.ok \/ HasDuplicates(df.cols) THEN fs
  ELSE IF disk = "ok" THEN Put(fs, output_file, ParquetOf(df))
  ELSE Put(fs, output_file, Garbage)

\* The body of one loop iteration: the try block and its except clause.
TryItem(name, tag, prefix, res, disk) ==
  LET df == IF res.ok THEN Annotate(res.df, name, tag) ELSE Table(<<>>, <<>>)
      output_file == OutputFile(prefix, name)
      processing == Line("processing", tag, name, 0)
  IN /\ fetched' = Append(fetched, [name |-> name, tag |-> tag, res |-> res])
     /\ files' = FilesAfterItem(files, output_file, res, df, disk)
     /\ IF ReachesAppend(res, df, disk)
        THEN /\ all_datasets' = Append(all_datasets, df)
             /\ console' = console \o
                  <<processing, Line("saved", tag, output_file, Len(df.rows))>>
        ELSE /\ all_datasets' = all_datasets
             /\ console' = console \o <<processing, Line("error", tag, name, 0)>>

\* brick_path.mkdir(exist_ok=True): unguarded.
Mkdir ==
  /\ pc = "mkdir"
  /\ \E ok \in BOOLEAN : pc' = IF ok THEN "adme" ELSE "crashed"
  /\ UNCHANGED <<idx, files, brick0, all_datasets, fetched, console, report,
                 col_names>>

\* for name in adme_datasets: ...
AdmeItem ==
  /\ pc = "adme"
  /\ idx <= Len(adme_used)
  /\ \E res \in ProviderResults, disk \in DiskOutcomes :
       TryItem(adme_used[idx], tag_ADME, prefix_adme, res, disk)
  /\ IF idx = Len(adme_used)
     THEN pc' = "tox" /\ idx' = 1
     ELSE pc' = pc /\ idx' = idx + 1
  /\ UNCHANGED <<brick0, report, col_names>>

\* for name in tox_datasets: ...
ToxItem ==
  /\ pc = "tox"
  /\ idx <= Len(tox_used)
  /\ \E res \in ProviderResults, disk \in DiskOutcomes :
       TryItem(tox_used[idx], tag_Toxicity, prefix_tox, res, disk)
  /\ IF idx = Len(tox_used)
     THEN pc' = "combine" /\ idx' = 1
     ELSE pc' = pc /\ idx' = idx + 1
  /\ UNCHANGED <<brick0, report, col_names>>

-----------------------------------------------------------------------------
(* The combined summary *)

cols_to_keep == <<col_drug_id, col_drug, col_y, col_dataset, col_category>>

\* [c for c in cols_to_keep if c in df.columns]
available_cols(df) == SelectSeq(cols_to_keep, LAMBDA c : c \in Range(df.cols))

\* df[available_cols].copy(), with drug_id converted by astype(str)
Subset(df) ==
  LET cols == available_cols(df)
  IN Table(cols,
           [r \in 1..Len(df.rows) |->
              [k \in 1..Len(cols) |->
                 IF cols[k] = col_drug_id
                 THEN AsTypeStr(df.rows[r][ColumnIndex(df, cols[k])])
                 ELSE df.rows[r][ColumnIndex(df, cols[k])]]])

\* The loop over all_datasets that fills summary_data.
RECURSIVE SummaryData(_)
SummaryData(dfs) ==
  IF dfs = <<>> THEN <<>>
  ELSE IF available_cols(Head(dfs)) # <<>>
       THEN <<Subset(Head(dfs))>> \o SummaryData(Tail(dfs))
       ELSE SummaryData(Tail(dfs))

\* The columns of pd.concat's result: the union of the columns of the
\* tables, each at the place of its first appearance.
RECURSIVE UnionColumns(_)
UnionColumns(dfs) ==
  IF dfs = <<>> THEN <<>>
  ELSE LET before == UnionColumns(SubSeq(dfs, 1, Len(dfs) - 1))
           last == dfs[Len(dfs)].cols
       IN before \o SelectSeq(last, LAMBDA c : c \notin Range(before))

\* The rows of one table laid out on the columns of the result: a column the
\* table does not have is filled with NaN.
Reindex(df, cols) ==
  [r \in 1..Len(df.rows) |->
     [k \in 1..Len(cols) |->
        IF cols[k] \in Range(df.cols)
        THEN df.rows[r][ColumnIndex(df, cols[k])]
        ELSE NaN]]

RECURSIVE ConcatRows(_, _)
ConcatRows(dfs, cols) ==
  IF dfs = <<>> THEN <<>>
  ELSE Reindex(Head(dfs), cols) \o ConcatRows(Tail(dfs), cols)

\* The buggy variant: the tables are concatenated last to first.
RECURSIVE ConcatRowsReversed(_, _)
ConcatRowsReversed(dfs, cols) ==
  IF dfs = <<>> THEN <<>>
  ELSE ConcatRowsReversed(Tail(dfs), cols) \o Reindex(Head(dfs), cols)

ConcatReversed(dfs) ==
  Table(UnionColumns(dfs), ConcatRowsReversed(dfs, UnionColumns(dfs)))

\* pd.concat(summary_data, ignore_index=True)
Concat(dfs) == Table(UnionColumns(dfs), ConcatRows(dfs, UnionColumns(dfs)))

\* if all_datasets: ... if summary_data: ... combined.to_parquet(...)
\* The write is unguarded: a failure ends the run.
Combine ==
  /\ pc = "combine"
  /\ LET summary_data == SummaryData(all_datasets)
         combined == Concat(summary_data)
     IN IF all_datasets = <<>> \/ summary_data = <<>>
        THEN /\ pc' = "report"
             /\ UNCHANGED <<files, console>>
        ELSE \E disk \in DiskOutcomes :
               IF disk = "ok"
               THEN /\ files' = Put(files, combined_file, ParquetOf(combined))
                    /\ console' = Append(console,
                         Line("combined", <<>>, combined_file, Len(combined.rows)))
                    /\ pc' = "report"
               ELSE /\ files' = Put(files, combined_file, Garbage)
                    /\ console' = console
                    /\ pc' = "crashed"
  /\ UNCHANGED <<idx, brick0, all_datasets, fetched, report, col_names>>


-----------------------------------------------------------------------------
(* The report *)

EndsWith(s, suffix) ==
  /\ Len(s) >= Len(suffix)
  /\ SubSeq(s, Len(s) - Len(suffix) + 1, Len(s)) = suffix

\* The buggy variant: every file of the directory is listed.
GlobEverything(fs) == DOMAIN fs

\* brick_path.glob("*.parquet")
GlobParquet(fs) == {f \in DOMAIN fs : EndsWith(f, dot_parquet)}

\* Comparison of two file names: code point by code point, a proper prefix
\* first.
RECURSIVE NameLess(_, _)
NameLess(a, b) ==
  IF b = <<>> THEN FALSE
  ELSE IF a = <<>> THEN TRUE
  ELSE IF Head(a) # Head(b) THEN Ord(Head(a)) < Ord(Head(b))
  ELSE NameLess(Tail(a), Tail(b))

\* sorted(...)
RECURSIVE Sorted(_)
Sorted(S) ==
  IF S = {} THEN <<>>
  ELSE LET first == CHOOSE a \in S : \A b \in S \ {a} : NameLess(a, b)
       IN <<first>> \o Sorted(S \ {first})

Readable(fs, f) == fs[f].kind = "parquet"

\* len(pd.read_parquet(f))
RowsOnDisk(fs, f) == Len(fs[f].df.rows)

\* The names the loop gets through: all of them, or those before the first
\* file pd.read_parquet cannot read.
RECURSIVE ReadablePrefix(_, _)
ReadablePrefix(fs, fnames) ==
  IF fnames = <<>> \/ ~Readable(fs, Head(fnames)) THEN <<>>
  ELSE <<Head(fnames)>> \o ReadablePrefix(fs, Tail(fnames))

\* total_records += len(df), over the files visited.
RECURSIVE TotalRecords(_, _)
TotalRecords(fs, fnames) ==
  IF fnames = <<>> THEN 0
  ELSE RowsOnDisk(fs, Head(fnames)) + TotalRecords(fs, Tail(fnames))

\* The buggy variant: the combined file is left out of the total.
GrandTotalWithoutCombined(fs, fnames) ==
  TotalRecords(fs, SelectSeq(fnames, LAMBDA f : f # combined_file))

GrandTotal(fs, fnames) == TotalRecords(fs, fnames)

NoReport == [lines |-> <<>>, total |-> 0, nfiles |-> 0]

\* The loop over sorted(brick_path.glob("*.parquet")) and the Total line.
\* pd.read_parquet is unguarded: a file it cannot read ends the run, after
\* the lines of the files before it were printed.
Report ==
  /\ pc = "report"
  /\ LET fnames == Sorted(GlobParquet(files))
         visited == ReadablePrefix(files, fnames)
         lines == [k \in 1..Len(visited) |->
                     [name |-> visited[k], rows |-> RowsOnDisk(files, visited[k])]]
     IN IF Len(visited) = Len(fnames)
        THEN /\ report' = [lines |-> lines,
                           total |-> GrandTotal(files, visited),
                           nfiles |-> Cardinality(GlobParquet(files))]
             /\ pc' = "done"
        ELSE /\ report' = [lines |-> lines, total |-> 0, nfiles |-> 0]
             /\ pc' = "crashed"
  /\ UNCHANGED <<idx, files, brick0, all_datasets, fetched, console, col_names>>

-----------------------------------------------------------------------------
(* One run of main() *)

Init ==
  /\ pc = "mkdir"
  /\ idx = 1
  /\ files \in InitialBricks
  /\ brick0 = files
  /\ all_datasets = <<>>
  /\ fetched = <<>>
  /\ console = <<>>
  /\ report = NoReport
  /\ col_names = <<>>

Next == Mkdir \/ AdmeItem \/ ToxItem \/ Combine \/ Report

Spec == Init /\ [][Next]_vars


-----------------------------------------------------------------------------
(* Vocabulary of the properties *)

\* The names a run walks, in order, each with its category tag.
Worklist ==
  [k \in 1..Len(adme_used) |-> [name |-> adme_used[k], tag |-> tag_ADME]] \o
  [k \in 1..Len(tox_used) |-> [name |-> tox_used[k], tag |-> tag_Toxicity]]

PrefixOf(tag) == IF tag = tag_ADME THEN prefix_adme ELSE prefix_tox

\* The output file of the k-th provider call of the run.
FileOfCall(k) == OutputFile(PrefixOf(fetched[k].tag), fetched[k].name)

\* The k-th call returned a table and the file of its name now holds a
\* readable table whose dataset column carries the name: this run wrote it.
WrittenThisRun(k) ==
  /\ fetched[k].res.ok
  /\ FileOfCall(k) \in DOMAIN files
  /\ files[FileOfCall(k)].kind = "parquet"
  /\ LET df == files[FileOfCall(k)].df
     IN /\ col_dataset \in Range(df.cols)
        /\ \A r \in 1..Len(df.rows) :
             df.rows[r][ColumnIndex(df, col_dataset)] = TextCell(fetched[k].name)
        /\ Len(df.rows) = Len(fetched[k].res.df.rows)

LoopsOver == pc \in {"combine", "report", "done"} \/
             (pc = "crashed" /\ Len(fetched) = Len(Worklist))

\* The combined file was written by this run.
CombinedWritten ==
  /\ pc \in {"report", "done", "crashed"}
  /\ \E k \in 1..Len(console) : console[k].ev = "combined"

RECURSIVE SumRows(_, _)
SumRows(fs, S) ==
  IF S = {} THEN 0
  ELSE LET f == CHOOSE g \in S : TRUE
       IN Len(fs[f].df.rows) + SumRows(fs, S \ {f})

-----------------------------------------------------------------------------
(* C1 *)

\* C1: when the provider call for a name fails, no output file of that name
\* exists at the end of the run, whatever brick/ held at the start; nothing
\* escapes the loop body, and every later name is still attempted in list
\* order.
C1_FailedFetchLeavesNoFile ==
  /\ \A k \in 1..Len(fetched) :
       /\ k <= Len(Worklist)
       /\ fetched[k].name = Worklist[k].name
       /\ fetched[k].tag = Worklist[k].tag
  /\ pc \in {"tox", "combine", "report", "done"} => Len(fetched) >= Len(adme_used)
  /\ pc \in {"combine", "report", "done"} => Len(fetched) = Len(Worklist)
  /\ pc = "done" =>
       \A k \in 1..Len(fetched) :
         ~fetched[k].res.ok => FileOfCall(k) \notin DOMAIN files


-----------------------------------------------------------------------------
(* C2 *)

\* The provider's columns that the annotation overwrites instead of adding.
AlreadyAnnotated(df) ==
  {j \in 1..Len(df.cols) : df.cols[j] \in {col_dataset, col_category}}

\* The file of the k-th call holds the provider's rows, annotated: one row
\* per provider row in the provider's order, the provider's cells at the
\* provider's positions, and the name and the tag in the dataset and category
\* columns of every row.
HoldsProviderRows(k) ==
  LET given == fetched[k].res.df
      df == files[FileOfCall(k)].df
  IN /\ Len(df.rows) = Len(given.rows)
     /\ col_dataset \in Range(df.cols)
     /\ col_category \in Range(df.cols)
     /\ \A r \in 1..Len(df.rows) :
          /\ df.rows[r][ColumnIndex(df, col_dataset)] = TextCell(fetched[k].name)
          /\ df.rows[r][ColumnIndex(df, col_category)] = TextCell(fetched[k].tag)
          /\ \A j \in (1..Len(given.cols)) \ AlreadyAnnotated(given) :
               df.rows[r][j] = given.rows[r][j]

SavedLine(k) == 2 * k <= Len(console) /\ console[2 * k].ev = "saved"

-----------------------------------------------------------------------------
(* C3 *)

\* The per-dataset files on disk whose table has one of the kept columns.
UsableFiles ==
  {f \in OwnFiles \cap DOMAIN files :
     /\ files[f].kind = "parquet"
     /\ available_cols(files[f].df) # <<>>}

\* C3: after the combiner, the combined file has as many rows as all the
\* per-dataset files with a kept column together, and when no table had a
\* kept column (or none was accumulated) the combined file is absent.
C3_CombinedRowsOrAbsent ==
  pc \in {"report", "done"} =>
    /\ (all_datasets = <<>> \/ SummaryData(all_datasets) = <<>>) =>
         combined_file \notin DOMAIN files
    /\ combined_file \in DOMAIN files =>
         /\ files[combined_file].kind = "parquet"
         /\ Len(files[combined_file].df.rows) = SumRows(files, UsableFiles)


-----------------------------------------------------------------------------
(* C4 *)

\* The mocked run: brick/ starts empty, one ADME name gets the three-row
\* table with the columns Drug_ID, Drug, Y, which is saved, and every other
\* call of the run fails.
MockedRun(k) ==
  /\ pc = "done"
  /\ brick0 = EmptyBrick
  /\ k \in 1..Len(adme_used)
  /\ fetched[k].res = Returned(Tbl_DrugID_Drug_Y)
  /\ SavedLine(k)
  /\ \A m \in (1..Len(fetched)) \ {k} : fetched[m].res = Raised

\* What the mocked run leaves on disk: one ADME file with the three rows and
\* the two extra columns, and the combined file with three rows and the five
\* kept columns.
MockedRunFiles(k) ==
  /\ OwnFiles \cap DOMAIN files = {FileOfCall(k)}
  /\ files[FileOfCall(k)].kind = "parquet"
  /\ Len(files[FileOfCall(k)].df.rows) = 3
  /\ files[FileOfCall(k)].df.cols = cols_to_keep
  /\ combined_file \in DOMAIN files
  /\ files[combined_file].kind = "parquet"
  /\ Len(files[combined_file].df.rows) = 3
  /\ files[combined_file].df.cols = cols_to_keep

\* The statement of C4 as made: the reporter prints a total of 3 records
\* across 2 files.
C4_AsClaimed ==
  \A k \in 1..Len(fetched) :
    MockedRun(k) =>
      MockedRunFiles(k) /\ report.total = 3 /\ report.nfiles = 2

\* C4 (amended): the mocked run yields exactly one ADME file with 3 rows and
\* the dataset and category columns, a combined file with 3 rows and the
\* columns drug_id, drug, y, dataset, category, and the reporter prints a
\* total of 6 records across 2 files: the 3 rows are counted once in the
\* per-dataset file and once more in the combined file.
C4_MockedRunTotalsSix ==
  \A k \in 1..Len(fetched) :
    MockedRun(k) =>
      MockedRunFiles(k) /\ report.total = 6 /\ report.nfiles = 2

C4_Witness == \E k \in 1..Len(fetched) : MockedRun(k)

-----------------------------------------------------------------------------
(* C5 *)

\* The files of brick/ whose name ends in .parquet, spelled out on the last
\* eight characters of the name.
ParquetNamed(f) ==
  /\ Len(f) >= 8
  /\ [k \in 1..8 |-> f[Len(f) - 8 + k]] = dot_parquet

\* C5: when the reporter completes, the total it prints is the sum of the
\* row counts of every .parquet file then in brick/ (those of this run, the
\* combined file and those that were there before), the file count is their
\* number, and the lines list each of them once, with its row count, in
\* ascending order of file name.
C5_ReportTotals ==
  pc = "done" =>
    LET present == {f \in DOMAIN files : ParquetNamed(f)}
    IN /\ report.total = SumRows(files, present)
       /\ report.nfiles = Cardinality(present)
       /\ Len(report.lines) = Cardinality(present)
       /\ {report.lines[k].name : k \in 1..Len(report.lines)} = present
       /\ \A k \in 1..Len(report.lines) :
            report.lines[k].rows = Len(files[report.lines[k].name].df.rows)
       /\ \A k \in 1..(Len(report.lines) - 1) :
            NameLess(report.lines[k].name, report.lines[k + 1].name)

\* A completed report over files of this run, the combined file, files of an
\* earlier run and a file whose name does not end in .parquet.
C5_Witness ==
  /\ pc = "done"
  /\ brick0 = EarlierRun
  /\ file_backup \in DOMAIN files
  /\ CombinedWritten
  /\ \E k \in 1..Len(fetched) : SavedLine(k)

-----------------------------------------------------------------------------
(* C6 *)

IsText(v) == v.t = "str"

\* The statement of C6 as made: the combined file has kept columns only, and
\* every cell of its drug_id column is a text, also in the rows of tables
\* that had no drug_id column.
C6_AsClaimed ==
  (CombinedWritten /\ pc # "crashed") =>
    LET combined == files[combined_file].df
    IN /\ Range(combined.cols) \subseteq Range(cols_to_keep)
       /\ col_drug_id \in Range(combined.cols) =>
            \A r \in 1..Len(combined.rows) :
              IsText(combined.rows[r][ColumnIndex(combined, col_drug_id)])

\* The accumulated table a row of the combined file comes from: the one
\* whose dataset column carries the row's dataset name.
HasDrugId(name) ==
  \E d \in 1..Len(all_datasets) :
    /\ col_drug_id \in Range(all_datasets[d].cols)
    /\ \E r \in 1..Len(all_datasets[d].rows) :
         all_datasets[d].rows[r][ColumnIndex(all_datasets[d], col_dataset)] = name

\* C6 (amended): whenever the combined file is written, its columns are
\* among drug_id, drug, y, dataset, category, and in its drug_id column the
\* rows of tables that had a drug_id column hold a text, while the rows of
\* tables that had none hold the missing value (NaN), not a text.
C6_DrugIdTextOrMissing ==
  (CombinedWritten /\ pc # "crashed") =>
    LET combined == files[combined_file].df
    IN /\ Range(combined.cols) \subseteq Range(cols_to_keep)
       /\ col_drug_id \in Range(combined.cols) =>
            \A r \in 1..Len(combined.rows) :
              LET cell == combined.rows[r][ColumnIndex(combined, col_drug_id)]
                  name == combined.rows[r][ColumnIndex(combined, col_dataset)]
              IN IF HasDrugId(name) THEN IsText(cell) ELSE cell = NaN

\* A combined file written from a table with a Drug_ID column and a table
\* without one.
C6_Witness ==
  /\ CombinedWritten
  /\ pc = "done"
  /\ \E a, b \in 1..Len(all_datasets) :
       /\ col_drug_id \in Range(all_datasets[a].cols)
       /\ col_drug_id \notin Range(all_datasets[b].cols)


-----------------------------------------------------------------------------
(* C8 *)

\* The "Processing ..." lines of the console, in the order printed.
ProcessingLines == SelectSeq(console, LAMBDA l : l.ev = "processing")

\* The calls of the run whose table was saved, in the order of the calls.
RECURSIVE SavedCalls(_)
SavedCalls(n) ==
  IF n = 0 THEN <<>>
  ELSE IF SavedLine(n) THEN Append(SavedCalls(n - 1), n) ELSE SavedCalls(n - 1)

\* For every row the combined file should hold, in order: the call it comes
\* from and its place in the provider's table.
RECURSIVE RowOrigins(_)
RowOrigins(calls) ==
  IF calls = <<>> THEN <<>>
  ELSE [r \in 1..Len(fetched[Head(calls)].res.df.rows) |->
          [call |-> Head(calls), row |-> r]] \o RowOrigins(Tail(calls))

\* The cell of the provider's column whose name is c up to case and blanks,
\* or NaN when the provider's table has no such column.
ProviderCell(o, c) ==
  LET given == fetched[o.call].res.df
      at == {j \in 1..Len(given.cols) : Lower(Strip(given.cols[j])) = c}
  IN IF at = {} THEN NaN ELSE given.rows[o.row][CHOOSE j \in at : TRUE]

\* C8: the names are attempted in list order, the ADME list before the
\* Toxicity list, whatever happened to the names before; and the rows of the
\* combined file are the rows of the saved tables, table after table in the
\* order of processing and row after row in the provider's order, none
\* dropped and none twice.
C8_OrderPreserved ==
  /\ Len(ProcessingLines) <= Len(Worklist)
  /\ \A k \in 1..Len(ProcessingLines) :
       /\ ProcessingLines[k].name = Worklist[k].name
       /\ ProcessingLines[k].tag = Worklist[k].tag
  /\ LoopsOver => Len(ProcessingLines) = Len(Worklist)
  /\ (CombinedWritten /\ pc # "crashed") =>
       LET combined == files[combined_file].df
           origins == RowOrigins(SavedCalls(Len(fetched)))
       IN /\ Len(combined.rows) = Len(origins)
          /\ \A r \in 1..Len(origins) :
               /\ combined.rows[r][ColumnIndex(combined, col_dataset)] =
                    TextCell(fetched[origins[r].call].name)
               /\ col_drug \in Range(combined.cols) =>
                    combined.rows[r][ColumnIndex(combined, col_drug)] =
                      ProviderCell(origins[r], col_drug)
               /\ col_y \in Range(combined.cols) =>
                    combined.rows[r][ColumnIndex(combined, col_y)] =
                      ProviderCell(origins[r], col_y)

\* A combined file written from two saved tables after a name that failed.
C8_Witness ==
  /\ CombinedWritten
  /\ pc = "done"
  /\ Len(SavedCalls(Len(fetched))) >= 2
  /\ \E k \in 1..Len(fetched) : ~fetched[k].res.ok

-----------------------------------------------------------------------------
(* C9 *)

\* Every name of the two lists, with the prefix of its list.
AllItems ==
  {<<prefix_adme, adme_datasets[k]>> : k \in 1..Len(adme_datasets)} \cup
  {<<prefix_tox, tox_datasets[k]>> : k \in 1..Len(tox_datasets)}

\* The thirty output paths are pairwise distinct and none is the combined
\* file.
PathsDistinct ==
  /\ Cardinality(AllItems) = Len(adme_datasets) + Len(tox_datasets)
  /\ \A a, b \in AllItems :
       a # b => OutputFile(a[1], a[2]) # OutputFile(b[1], b[2])
  /\ \A a \in AllItems : OutputFile(a[1], a[2]) # combined_file

\* The name the next loop iteration processes.
CurrentItem ==
  IF pc = "adme" THEN <<prefix_adme, adme_used[idx]>>
  ELSE <<prefix_tox, tox_used[idx]>>

SameFile(f) ==
  /\ f \in DOMAIN files <=> f \in DOMAIN files'
  /\ f \in DOMAIN files => files'[f] = files[f]

\* One loop iteration leaves the file of every other name, and every file
\* that belongs to no name, as it was.
OthersUntouched ==
  pc \in {"adme", "tox"} =>
    /\ \A a \in AllItems \ {CurrentItem} : SameFile(OutputFile(a[1], a[2]))
    /\ \A f \in {combined_file, file_other, file_backup} : SameFile(f)

\* C9: processing one name, whether it succeeds or fails, creates, overwrites
\* or removes no file of another name: the thirty output paths are pairwise
\* distinct and differ from the combined file.
C9_OthersUntouched == [][PathsDistinct /\ OthersUntouched]_vars

\* A later name was saved beside the file an earlier name of this run left,
\* in a directory that held the files of an earlier run.
C9_Witness ==
  /\ brick0 = EarlierRun
  /\ pc = "combine"
  /\ \E k, m \in 1..Len(fetched) : k < m /\ SavedLine(k) /\ SavedLine(m)
  /\ \E k \in 1..Len(fetched) : ~fetched[k].res.ok

-----------------------------------------------------------------------------
(* C10 *)

\* The calls of the run whose fetch succeeded and whose file was written by
\* this run, in the order of the calls.
RECURSIVE WrittenCalls(_)
WrittenCalls(n) ==
  IF n = 0 THEN <<>>
  ELSE IF WrittenThisRun(n) THEN Append(WrittenCalls(n - 1), n)
       ELSE WrittenCalls(n - 1)

\* C10: after every loop iteration the accumulator holds exactly the tables
\* of the names whose fetch and write both succeeded, in processing order; a
\* name whose write failed is not accumulated and has no row in the combined
\* file.
C10_AccumulatorIsSavedTables ==
  LET written == WrittenCalls(Len(fetched))
  IN /\ Len(all_datasets) = Len(written)
     /\ \A d \in 1..Len(written) :
          all_datasets[d] = files[FileOfCall(written[d])].df
     /\ (CombinedWritten /\ pc # "crashed") =>
          \A k \in 1..Len(fetched) :
            ~WrittenThisRun(k) =>
              \A r \in 1..Len(files[combined_file].df.rows) :
                files[combined_file].df.rows[r]
                  [ColumnIndex(files[combined_file].df, col_dataset)]
                    # TextCell(fetched[k].name)

\* A run in which one fetch succeeded but the write was refused, another
\* write failed on the disk, and a third name was saved.
C10_Witness ==
  /\ pc = "report"
  /\ \E k, m, n \in 1..Len(fetched) :
       /\ fetched[k].res = Returned(Tbl_Drug_drug)
       /\ fetched[m].res.ok /\ FileOfCall(m) \in DOMAIN files
                            /\ files[FileOfCall(m)] = Garbage
       /\ WrittenThisRun(n)

=============================================================================
